---- MODULE Spec2Model ----
(***************************************************************************)
(* runefall (src/src/main.rs): a terminal rune-rain animation.             *)
(*                                                                         *)
(* The model covers the Renderer (the engine), its Streams, the direction  *)
(* transform, and the control flow of main() and run_loop().               *)
(*                                                                         *)
(* Abstractions, all stated here once:                                     *)
(*  - density is an f32 in the code; the model keeps it in hundredths      *)
(*    (40 = 0.40) and computes with exact integer arithmetic;              *)
(*  - a glyph is the single token Rune: which character random_rune()      *)
(*    returns is not modelled, only how many glyphs a stream holds;        *)
(*  - color_seed, palette, rune_set and global_tick only select colours    *)
(*    and characters and are not part of the modelled state;               *)
(*  - every value drawn from the random source is a nondeterministic       *)
(*    choice over the whole range the code draws it from.                  *)
(***************************************************************************)
EXTENDS Integers, Sequences, FiniteSets, TLC

\* ── bounds of the model ────────────────────────────────────────────────
MaxCols == 2
MaxRows == 1
TallRows == 9
ProbeDim == 3
MaxArgs == 3
MaxPending == 2

\* ── program constants ──────────────────────────────────────────────────
MinTrail == 4
MinTrailCap == 6
TrailMargin == 2
MaxSpeed == 4
DensityMin == 5
DensityMax == 100
StatusSeconds == 3
StatusFixedLen == 51
DefaultFps == 20
DefaultDensity == 40
MinFps == 5
MaxFps == 60
FrameStep == 5
MinFrameMillis == 10
MaxFrameMillis == 200

VARIABLES
    \* struct Renderer
    cols, rows, direction, streams, density,
    show_status, status_timer, status_clear_needed, fps,
    \* main() and run_loop()
    pc, frame_duration, result, failed_at, raw_mode, alt_screen, cursor_hidden,
    cleanup_ran,
    \* locals of Renderer::resize while its loop runs
    available, todo, ret,
    \* what the last step read and emitted
    event, out, dying, free_seen,
    \* the Renderer operation that last wrote the pool
    pool_op,
    \* one application of a pure function: its arguments and its result
    probe,
    \* Renderer.palette / Config.palette
    palette,
    \* parse_args: the argument vector and the loop index
    args, arg_i,
    \* the terminal's event queue, when a run starts with events already pending
    pending,
    \* the terminal's cells that hold a glyph of the rain
    screen

overlay == <<show_status, status_timer, status_clear_needed, fps>>
engine == <<cols, rows, direction, streams, density, show_status, status_timer,
            status_clear_needed, fps, pool_op>>
term == <<raw_mode, alt_screen, cursor_hidden, cleanup_ran, failed_at>>
resizeLocals == <<available, todo, ret>>
tickLog == <<dying, free_seen>>
aux == <<probe, palette, args, arg_i, pending, screen>>
vars == <<cols, rows, direction, streams, density, show_status, status_timer,
          status_clear_needed, fps, pc, frame_duration, result, failed_at, raw_mode,
          alt_screen, cursor_hidden, cleanup_ran, available, todo, ret,
          event, out, dying, free_seen, pool_op, probe, palette, args, arg_i, pending, screen>>

\* ── helpers ────────────────────────────────────────────────────────────
Max(a, b) == IF a >= b THEN a ELSE b
Min(a, b) == IF a <= b THEN a ELSE b
SatSub(a, b) == IF a >= b THEN a - b ELSE 0
Clamp(v, lo, hi) == IF v < lo THEN lo ELSE IF v > hi THEN hi ELSE v

Rune == "rune"

\* crossterm events: a key press (code, control modifier), a resize, anything else
NoEvent == [kind |-> "none", code |-> "", ctrl |-> FALSE]
Key(code, ctrl) == [kind |-> "key", code |-> code, ctrl |-> ctrl]
ResizeEvent == [kind |-> "resize", code |-> "", ctrl |-> FALSE]
OtherEvent == [kind |-> "other", code |-> "", ctrl |-> FALSE]

\* ── Direction ──────────────────────────────────────────────────────────
Directions == {"Down", "Up", "Left", "Right"}

MaxLanesSwapped(dir, c, r) == IF dir \in {"Down", "Up"} THEN r ELSE c
MaxLanes(dir, c, r) == IF dir \in {"Down", "Up"} THEN c ELSE r

MaxPos(dir, c, r) == IF dir \in {"Down", "Up"} THEN r ELSE c

None == [some |-> FALSE, x |-> 0, y |-> 0]
Some(px, py) == [some |-> TRUE, x |-> px, y |-> py]

NoProbe == [done |-> FALSE, lane |-> 0, pos |-> 0, at |-> None]

ToScreenNoMirror(dir, lane, pos, c, r) ==
    CASE dir \in {"Down", "Up"} -> IF pos >= 0 /\ pos < r THEN Some(lane, pos) ELSE None
      [] OTHER -> IF pos >= 0 /\ pos < c THEN Some(pos, lane) ELSE None
ToScreen(dir, lane, pos, c, r) ==
    CASE dir = "Down" -> IF pos >= 0 /\ pos < r THEN Some(lane, pos) ELSE None
      [] dir = "Up" ->
            IF pos >= 0 /\ pos < r THEN Some(lane, SatSub(SatSub(r, 1), pos)) ELSE None
      [] dir = "Right" -> IF pos >= 0 /\ pos < c THEN Some(pos, lane) ELSE None
      [] dir = "Left" ->
            IF pos >= 0 /\ pos < c THEN Some(SatSub(SatSub(c, 1), pos), lane) ELSE None

\* ── Stream ─────────────────────────────────────────────────────────────
TrailLenRangeNoFloor(max_pos) == 1 .. Max(SatSub(max_pos, TrailMargin), MinTrailCap)
TrailLenRange(max_pos) == MinTrail .. Max(SatSub(max_pos, TrailMargin), MinTrailCap)

SpeedRange == 1 .. MaxSpeed

\* -(rng.gen_range(0..(max_pos as i32).max(1)))
StartPosRange(max_pos) == {-k : k \in 0 .. (Max(max_pos, 1) - 1)}

Glyphs(n) == [i \in 1 .. n |-> Rune]

NewStream(lane, max_pos) ==
    {[lane |-> lane, pos |-> p, speed |-> sp, tick_counter |-> 0, trail_len |-> tl,
      active |-> TRUE, chars |-> Glyphs(tl)] :
        p \in StartPosRange(max_pos), sp \in SpeedRange, tl \in TrailLenRange(max_pos)}

ResetStream(s, lane, max_pos) ==
    {[s EXCEPT !.lane = lane, !.pos = p, !.speed = sp, !.tick_counter = 0,
               !.trail_len = tl, !.chars = Glyphs(tl), !.active = TRUE] :
        p \in StartPosRange(max_pos), sp \in SpeedRange, tl \in TrailLenRange(max_pos)}

\* the 1-in-5 shimmer: one glyph of the trail is replaced by a fresh one, or none is
Shimmer(chars) ==
    {chars} \cup (IF chars # <<>>
                  THEN {[chars EXCEPT ![idx] = Rune] : idx \in 1 .. Len(chars)}
                  ELSE {})

StreamTickSlow(s, max_pos) ==
    LET c == s.tick_counter + 1 IN
    IF c > s.speed
    THEN {[s EXCEPT !.tick_counter = 0,
                    !.pos = s.pos + 1,
                    !.chars = ch,
                    !.active = IF (s.pos + 1) - s.trail_len > max_pos
                               THEN FALSE ELSE s.active] : ch \in Shimmer(s.chars)}
    ELSE {[s EXCEPT !.tick_counter = c]}
StreamTickEarly(s, max_pos) ==
    LET c == s.tick_counter + 1 IN
    IF c >= s.speed
    THEN {[s EXCEPT !.tick_counter = 0,
                    !.pos = s.pos + 1,
                    !.chars = ch,
                    !.active = IF (s.pos + 1) - s.trail_len >= max_pos
                               THEN FALSE ELSE s.active] : ch \in Shimmer(s.chars)}
    ELSE {[s EXCEPT !.tick_counter = c]}
StreamTick(s, max_pos) ==
    LET c == s.tick_counter + 1 IN
    IF c >= s.speed
    THEN {[s EXCEPT !.tick_counter = 0,
                    !.pos = s.pos + 1,
                    !.chars = ch,
                    !.active = IF (s.pos + 1) - s.trail_len > max_pos
                               THEN FALSE ELSE s.active] : ch \in Shimmer(s.chars)}
    ELSE {[s EXCEPT !.tick_counter = c]}

\* ── Renderer::resize ───────────────────────────────────────────────────
\* ((max_lanes as f32 * self.density) as usize).max(1)
TargetNoFloor(max_lanes, dens) == (max_lanes * dens) \div 100
Target(max_lanes, dens) == Max((max_lanes * dens) \div 100, 1)

\* (0..max_lanes).collect()
AllLanesFromOne(max_lanes) == [i \in 1 .. max_lanes |-> i]
AllLanes(max_lanes) == [i \in 1 .. max_lanes |-> i - 1]

\* Vec::swap_remove(idx): the element at idx leaves, the last one takes its place
KeepAll(v, idx) == v
SwapRemove(v, idx) ==
    IF idx = Len(v)
    THEN SubSeq(v, 1, Len(v) - 1)
    ELSE [SubSeq(v, 1, Len(v) - 1) EXCEPT ![idx] = v[Len(v)]]

\* resize() up to its loop, for the direction and density the caller has set;
\* r is where control goes once the pool is rebuilt
BeginResize(new_cols, new_rows, dir, dens, r) ==
    LET max_lanes == MaxLanes(dir, new_cols, new_rows)
        n == Min(Target(max_lanes, dens), max_lanes)
    IN  /\ cols' = new_cols
        /\ rows' = new_rows
        /\ streams' = <<>>
        /\ IF n = 0
           THEN /\ pc' = r
                /\ available' = <<>>
                /\ todo' = 0
                /\ ret' = ""
           ELSE /\ pc' = "resize"
                /\ available' = AllLanes(max_lanes)
                /\ todo' = n
                /\ ret' = r

ClearTickLog == dying' = {} /\ free_seen' = {}

\* one iteration of resize()'s loop; the last one returns to the caller
ResizeStep ==
    /\ pc = "resize"
    /\ \E idx \in 1 .. Len(available) :
         \E s \in NewStream(available[idx], MaxPos(direction, cols, rows)) :
            /\ streams' = Append(streams, s)
            /\ LET rest == SwapRemove(available, idx) IN
               IF todo = 1 \/ rest = <<>>
               THEN /\ pc' = ret
                    /\ available' = <<>>
                    /\ todo' = 0
                    /\ ret' = ""
               ELSE /\ pc' = "resize"
                    /\ available' = rest
                    /\ todo' = todo - 1
                    /\ ret' = ret
    /\ ClearTickLog
    /\ UNCHANGED <<cols, rows, direction, density, overlay, pool_op, frame_duration, aux, result,
                   term, event, out>>

\* ── Renderer::tick ─────────────────────────────────────────────────────
AdvanceAll(strs, max_pos) ==
    {q \in [1 .. Len(strs) -> UNION {StreamTick(strs[i], max_pos) : i \in 1 .. Len(strs)}] :
        \A i \in 1 .. Len(strs) : q[i] \in StreamTick(strs[i], max_pos)}

Occupied(strs, max_lanes) ==
    {strs[i].lane : i \in {j \in 1 .. Len(strs) : strs[j].active /\ strs[j].lane < max_lanes}}

RECURSIVE FreeFrom(_, _, _)
FreeFrom(l, max_lanes, occ) ==
    IF l >= max_lanes THEN <<>>
    ELSE (IF l \in occ THEN <<>> ELSE <<l>>) \o FreeFrom(l + 1, max_lanes, occ)

\* (0..max_lanes).filter(|&l| !occupied[l]).collect()
FreeLanesAll(strs, max_lanes) == FreeFrom(0, max_lanes, {})
FreeLanes(strs, max_lanes) == FreeFrom(0, max_lanes, Occupied(strs, max_lanes))

\* the second loop of tick(): every inactive stream is reset, in pool order
DropDead(strs, i, free, max_lanes, max_pos) == {SelectSeq(strs, LAMBDA s : s.active)}

RECURSIVE ResetDead(_, _, _, _, _)
ResetDead(strs, i, free, max_lanes, max_pos) ==
    IF i > Len(strs) THEN {strs}
    ELSE IF strs[i].active THEN ResetDead(strs, i + 1, free, max_lanes, max_pos)
    ELSE IF free # <<>>
    THEN UNION {UNION {ResetDead([strs EXCEPT ![i] = ns], i + 1, SwapRemove(free, idx),
                                 max_lanes, max_pos) :
                           ns \in ResetStream(strs[i], free[idx], max_pos)} :
                    idx \in 1 .. Len(free)}
    ELSE UNION {UNION {ResetDead([strs EXCEPT ![i] = ns], i + 1, free, max_lanes, max_pos) :
                           ns \in ResetStream(strs[i], lane, max_pos)} :
                    lane \in 0 .. (Max(max_lanes, 1) - 1)}

Tick ==
    LET max_lanes == MaxLanes(direction, cols, rows)
        max_pos == MaxPos(direction, cols, rows)
    IN  /\ status_timer' = IF status_timer > 0 THEN status_timer - 1 ELSE status_timer
        /\ status_clear_needed' = IF status_timer = 1 THEN TRUE ELSE status_clear_needed
        /\ \E adv \in AdvanceAll(streams, max_pos) :
              /\ streams' \in ResetDead(adv, 1, FreeLanes(adv, max_lanes), max_lanes, max_pos)
              /\ dying' = {i \in 1 .. Len(adv) : ~adv[i].active}
              /\ free_seen' = {l \in 0 .. (max_lanes - 1) : l \notin Occupied(adv, max_lanes)}
        /\ pool_op' = "tick"
        /\ UNCHANGED <<cols, rows, direction, density, show_status, fps>>

\* ── Renderer::change_density / change_direction / poke_status ──────────
ClampDensityNoFloor(d) == Min(d, DensityMax)
ClampDensity(d) == Clamp(d, DensityMin, DensityMax)

ChangeDensity(delta, r) ==
    /\ density' = ClampDensity(density + delta)
    /\ BeginResize(cols, rows, direction, ClampDensity(density + delta), r)
    /\ pool_op' = "change_density"
    /\ UNCHANGED <<direction, overlay>>

ChangeDirection(new_dir, r) ==
    IF direction # new_dir
    THEN /\ direction' = new_dir
         /\ status_clear_needed' = TRUE
         /\ BeginResize(cols, rows, new_dir, density, r)
         /\ pool_op' = "change_direction"
         /\ UNCHANGED <<density, show_status, status_timer, fps>>
    ELSE /\ pc' = r
         /\ UNCHANGED <<engine, resizeLocals>>

PokeStatus ==
    /\ status_timer' = fps * StatusSeconds
    /\ status_clear_needed' = FALSE

\* ── Renderer::render ───────────────────────────────────────────────────
\* one queued paint: kind is "glyph", "blank", "head", "status" or "status_blank";
\* stream and i name the stream (pool index) and trail index a paint belongs to,
\* b is the overlay's brightness
Paint(kind, at, k, i, b) ==
    [kind |-> kind, x |-> at.x, y |-> at.y, stream |-> k, i |-> i, b |-> b]

\* for i in 0..trail_len: paint chars[i] where (lane, pos - i) is on the grid
TrailPaints(s, k, dir, c, r) ==
    LET cell(j) == ToScreen(dir, s.lane, s.pos - j, c, r)
        all == [j \in 1 .. s.trail_len |-> [at |-> cell(j - 1), i |-> j - 1]]
        on == SelectSeq(all, LAMBDA e : e.at.some)
    IN  [j \in 1 .. Len(on) |-> Paint("glyph", on[j].at, k, on[j].i, 0)]

\* erase the cell one step beyond the tail
ErasePaintsOffByOne(s, k, dir, c, r) ==
    LET at == ToScreen(dir, s.lane, s.pos - s.trail_len + 1, c, r) IN
    IF at.some THEN <<Paint("blank", at, k, s.trail_len, 0)>> ELSE <<>>
ErasePaints(s, k, dir, c, r) ==
    LET at == ToScreen(dir, s.lane, s.pos - s.trail_len, c, r) IN
    IF at.some THEN <<Paint("blank", at, k, s.trail_len, 0)>> ELSE <<>>

\* head glow
HeadPaints(s, k, dir, c, r) ==
    LET at == ToScreen(dir, s.lane, s.pos, c, r) IN
    IF at.some THEN <<Paint("head", at, k, 0, 0)>> ELSE <<>>

StreamPaintsHeadFirst(s, k, dir, c, r) ==
    IF ~s.active THEN <<>>
    ELSE HeadPaints(s, k, dir, c, r) \o TrailPaints(s, k, dir, c, r)
            \o ErasePaints(s, k, dir, c, r)
StreamPaints(s, k, dir, c, r) ==
    IF ~s.active THEN <<>>
    ELSE TrailPaints(s, k, dir, c, r) \o ErasePaints(s, k, dir, c, r)
            \o HeadPaints(s, k, dir, c, r)

RECURSIVE PoolPaints(_, _, _, _, _)
PoolPaints(strs, k, dir, c, r) ==
    IF k > Len(strs) THEN <<>>
    ELSE StreamPaints(strs[k], k, dir, c, r) \o PoolPaints(strs, k + 1, dir, c, r)

\* status.len(): the bytes of the status line for the glyph set "All" and the
\* palette "Arcane", which the model keeps fixed
Digits(n) == IF n < 10 THEN 1 ELSE IF n < 100 THEN 2 ELSE 3
StatusLen(f) == StatusFixedLen + Digits(f)

BrightnessNoBase(timer, f) == IF timer < f THEN ((100 * timer) \div f) % 256 ELSE 150
Brightness(timer, f) == IF timer < f THEN 50 + (((100 * timer) \div f) % 256) ELSE 150

OverlayShown == show_status /\ status_timer > 0 /\ rows > 0
OverlayClearedEveryFrame == ~OverlayShown /\ rows > 0
OverlayCleared == ~OverlayShown /\ status_clear_needed /\ rows > 0

OverlayPaints ==
    LET at == Some(SatSub(cols, StatusLen(fps)), rows - 1) IN
    IF OverlayShown THEN <<Paint("status", at, 0, 0, Brightness(status_timer, fps))>>
    ELSE IF OverlayCleared THEN <<Paint("status_blank", at, 0, 0, 0)>>
    ELSE <<>>

Render ==
    /\ out' = PoolPaints(streams, 1, direction, cols, rows) \o OverlayPaints
    /\ status_clear_needed' = IF OverlayCleared THEN FALSE ELSE status_clear_needed
    /\ UNCHANGED <<cols, rows, direction, streams, density, show_status, status_timer, fps,
                   pool_op>>

\* ── the engine driven through its interface ────────────────────────────
InitDensities == {10, DefaultDensity, DensityMax}
InitFps == {5}
Deltas == {-60, 60}

ApiResize ==
    /\ pc = "idle"
    /\ \E w \in 0 .. MaxCols, h \in 0 .. MaxRows : BeginResize(w, h, direction, density, "idle")
    /\ pool_op' = "resize"
    /\ out' = <<>>
    /\ ClearTickLog
    /\ event' = NoEvent
    /\ UNCHANGED <<direction, density, overlay, frame_duration, aux, result, term>>

ApiTick ==
    /\ pc = "idle"
    /\ Tick
    /\ out' = <<>>
    /\ event' = NoEvent
    /\ UNCHANGED <<pc, frame_duration, aux, result, term, resizeLocals>>

ApiChangeDensity ==
    /\ pc = "idle"
    /\ \E delta \in Deltas : ChangeDensity(delta, "idle")
    /\ out' = <<>>
    /\ ClearTickLog
    /\ event' = NoEvent
    /\ UNCHANGED <<frame_duration, aux, result, term>>

\* change_direction as the arrow keys call it: KeyCode::Up gives Direction::Up, ...
ApiChangeDirection ==
    /\ pc = "idle"
    /\ \E d \in Directions :
          /\ ChangeDirection(d, "idle")
          /\ event' = Key(d, FALSE)
    /\ out' = <<>>
    /\ ClearTickLog
    /\ UNCHANGED <<frame_duration, aux, result, term>>

\* Renderer::new(palette, density, fps) on a terminal of size (w, h)
New(w, h, d, f, r) ==
    /\ direction' = "Down"
    /\ density' = d
    /\ show_status' = TRUE
    /\ status_timer' = f * StatusSeconds
    /\ status_clear_needed' = FALSE
    /\ fps' = f
    /\ pool_op' = "new"
    /\ BeginResize(w, h, "Down", d, r)

InitEngine ==
    /\ \E w \in 0 .. MaxCols, h \in 0 .. MaxRows, d \in InitDensities, f \in InitFps :
         LET max_lanes == MaxLanes("Down", w, h)
             n == Min(Target(max_lanes, d), max_lanes)
         IN  /\ cols = w /\ rows = h
             /\ direction = "Down"
             /\ density = d
             /\ show_status = TRUE
             /\ status_timer = 1
             /\ status_clear_needed = FALSE
             /\ fps = f
             /\ frame_duration = 1000 \div f
             /\ streams = <<>>
             /\ pc = IF n = 0 THEN "idle" ELSE "resize"
             /\ available = IF n = 0 THEN <<>> ELSE AllLanes(max_lanes)
             /\ todo = n
             /\ ret = IF n = 0 THEN "" ELSE "idle"
    /\ result = "none"
    /\ failed_at = ""
    /\ raw_mode = TRUE /\ alt_screen = TRUE /\ cursor_hidden = TRUE /\ cleanup_ran = FALSE
    /\ event = NoEvent
    /\ out = <<>>
    /\ dying = {}
    /\ free_seen = {}
    /\ pool_op = "new"
    /\ probe = NoProbe
    /\ palette = "Arcane"
    /\ args = <<>>
    /\ arg_i = 0
    /\ pending = <<>>
    /\ screen = {}

NextEngine ==
    \/ ApiResize
    \/ ApiTick
    \/ ApiChangeDensity
    \/ ApiChangeDirection
    \/ ResizeStep

SpecEngine == InitEngine /\ [][NextEngine]_vars

\* ── main() and run_loop() ──────────────────────────────────────────────
\* the key presses the model delivers: the quit keys, 'c' alone and with Ctrl
\* (what raw mode delivers for Ctrl+C), the status toggle, and a key with no
\* binding
KeyPresses ==
    {Key("q", FALSE), Key("Q", FALSE), Key("Esc", FALSE), Key("c", FALSE), Key("c", TRUE),
     Key("i", FALSE), Key("x", FALSE)}

\* KeyCode::Char('q') | KeyCode::Char('Q') | KeyCode::Esc
QuitCodesNoUpper == {"q", "Esc"}
QuitCodes == {"q", "Q", "Esc"}

IsQuit(e) == e.kind = "key" /\ e.code \in QuitCodes
IsCtrlC(e) == e.kind = "key" /\ e.code = "c" /\ e.ctrl

Idle == available = <<>> /\ todo = 0 /\ ret = ""

\* the terminal sizes the model reports: every small grid, and one tall column
TermSizes == ((0 .. MaxCols) \X (0 .. MaxRows)) \cup {<<1, TallRows>>}

\* terminal::enable_raw_mode()?
EnableRaw ==
    /\ pc = "start"
    /\ \/ raw_mode' = TRUE /\ pc' = "enter" /\ failed_at' = failed_at
       \/ raw_mode' = raw_mode /\ pc' = "exit" /\ failed_at' = "raw"
    /\ UNCHANGED <<engine, frame_duration, aux, result, alt_screen, cursor_hidden, cleanup_ran,
                   resizeLocals, event, out, tickLog>>

\* execute!(stdout, EnterAlternateScreen, Hide, Clear(All))?
EnterScreen ==
    /\ pc = "enter"
    /\ \/ alt_screen' = TRUE /\ cursor_hidden' = TRUE /\ pc' = "new" /\ failed_at' = failed_at
       \/ /\ \E a \in BOOLEAN, h \in BOOLEAN :
                (h => a) /\ alt_screen' = a /\ cursor_hidden' = h
          /\ pc' = "exit"
          /\ failed_at' = "enter"
    /\ UNCHANGED <<engine, frame_duration, aux, result, raw_mode, cleanup_ran, resizeLocals,
                   event, out, tickLog>>

\* Renderer::new(config.palette, config.density, config.fps)?
Construct ==
    /\ pc = "new"
    /\ \/ /\ \E sz \in TermSizes : New(sz[1], sz[2], density, fps, "poll")
          /\ failed_at' = failed_at
       \/ /\ pc' = "exit"
          /\ failed_at' = "new"
          /\ UNCHANGED <<engine, resizeLocals>>
    /\ UNCHANGED <<frame_duration, aux, result, raw_mode, alt_screen, cursor_hidden, cleanup_ran,
                   event, out, tickLog>>

\* event::poll(Duration::ZERO)? is false: no event is pending
PollNone ==
    /\ pc = "poll"
    /\ pc' = "tick"
    /\ event' = NoEvent
    /\ UNCHANGED <<engine, frame_duration, aux, result, term, resizeLocals, out, tickLog>>

\* event::poll(..)? or event::read()? fails: run_loop returns the error
PollError ==
    /\ pc = "poll"
    /\ pc' = "cleanup"
    /\ result' = "err"
    /\ event' = NoEvent
    /\ UNCHANGED <<engine, frame_duration, aux, term, resizeLocals, out, tickLog>>

\* a quit key: return Ok(())
KeyQuit(e) ==
    /\ IsQuit(e)
    /\ pc' = "cleanup"
    /\ result' = "ok"
    /\ UNCHANGED <<engine, resizeLocals>>

\* 'i': toggle the status line; the only key that does not poke it afterwards
KeyToggleStatus(e) ==
    /\ e.code = "i"
    /\ show_status' = ~show_status
    /\ IF ~show_status
       THEN PokeStatus
       ELSE status_clear_needed' = TRUE /\ status_timer' = status_timer
    /\ pc' = "tick"
    /\ UNCHANGED <<cols, rows, direction, streams, density, fps, pool_op, result,
                   resizeLocals>>

\* '+' | '=': a shorter frame, at least 10 ms
FasterMillisLowFloor(fd) == Max(SatSub(fd, FrameStep), MinFps)
FasterMillis(fd) == Max(SatSub(fd, FrameStep), MinFrameMillis)
\* '-': a longer frame, at most 200 ms
SlowerMillis(fd) == Min(fd + FrameStep, MaxFrameMillis)

\* '+' | '=' | '-': set frame_duration and renderer.fps, then poke the status line
KeySpeed(e) ==
    /\ e.code \in {"+", "=", "-"}
    /\ frame_duration' = IF e.code = "-" THEN SlowerMillis(frame_duration)
                                          ELSE FasterMillis(frame_duration)
    /\ fps' = 1000 \div frame_duration'
    /\ status_timer' = fps' * StatusSeconds
    /\ status_clear_needed' = FALSE
    /\ pc' = "tick"
    /\ UNCHANGED <<cols, rows, direction, streams, density, show_status, pool_op, result,
                   resizeLocals>>

\* the key codes the match of run_loop gives a body of their own
BoundCodes == {"i", "+", "=", "-"}

\* 'c' (with or without Ctrl) and every key without a binding: the match arm
\* does nothing, then the status line is poked
KeyUnbound(e) ==
    /\ ~IsQuit(e)
    /\ e.code \notin BoundCodes
    /\ PokeStatus
    /\ pc' = "tick"
    /\ UNCHANGED <<cols, rows, direction, streams, density, show_status, fps, pool_op,
                   result, resizeLocals>>

ReadKey ==
    /\ pc = "poll"
    /\ \E e \in KeyPresses :
          /\ event' = e
          /\ \/ KeyQuit(e)
             \/ KeyToggleStatus(e)
             \/ KeyUnbound(e)
    /\ UNCHANGED <<frame_duration, aux, term, out, tickLog>>

\* Event::Resize(w, h): clear the screen, then renderer.resize(w, h)
ReadResize ==
    /\ pc = "poll"
    /\ event' = ResizeEvent
    /\ \/ /\ \E sz \in TermSizes : BeginResize(sz[1], sz[2], direction, density, "tick")
          /\ pool_op' = "resize"
          /\ UNCHANGED <<direction, density, overlay, result>>
       \/ /\ pc' = "cleanup"
          /\ result' = "err"
          /\ UNCHANGED <<engine, resizeLocals>>
    /\ UNCHANGED <<frame_duration, aux, term, out, tickLog>>

\* any other event (mouse, focus, paste): ignored
ReadOther ==
    /\ pc = "poll"
    /\ event' = OtherEvent
    /\ pc' = "tick"
    /\ UNCHANGED <<engine, frame_duration, aux, result, term, resizeLocals, out, tickLog>>

\* renderer.tick()
TickStep ==
    /\ pc = "tick"
    /\ Tick
    /\ pc' = "render"
    /\ event' = NoEvent
    /\ UNCHANGED <<frame_duration, aux, result, term, resizeLocals, out>>

\* renderer.render(stdout)?
RenderStep ==
    /\ pc = "render"
    /\ Render
    /\ pc' = "sleep"
    /\ ClearTickLog
    /\ UNCHANGED <<frame_duration, aux, result, term, resizeLocals, event>>

\* a queue! or the final flush of render() fails: run_loop returns the error
RenderError ==
    /\ pc = "render"
    /\ \/ UNCHANGED status_clear_needed
       \/ status_clear_needed' = IF OverlayCleared THEN FALSE ELSE status_clear_needed
    /\ pc' = "cleanup"
    /\ result' = "err"
    /\ out' = <<>>
    /\ ClearTickLog
    /\ UNCHANGED <<cols, rows, direction, streams, density, show_status, status_timer, fps,
                   pool_op, frame_duration, aux, term, resizeLocals, event>>

\* std::thread::sleep(frame_duration - elapsed), then the next iteration
Sleep ==
    /\ pc = "sleep"
    /\ pc' = "poll"
    /\ out' = <<>>
    /\ UNCHANGED <<engine, frame_duration, aux, result, term, resizeLocals, event, tickLog>>

\* execute!(stdout, Reset, Clear(All), Show, LeaveAlternateScreen)?
Cleanup ==
    /\ pc = "cleanup"
    /\ cleanup_ran' = TRUE
    /\ \/ /\ alt_screen' = FALSE /\ cursor_hidden' = FALSE
          /\ pc' = "unraw"
          /\ failed_at' = failed_at
       \/ /\ UNCHANGED <<alt_screen, cursor_hidden>>
          /\ pc' = "exit"
          /\ failed_at' = "cleanup"
    /\ UNCHANGED <<engine, frame_duration, aux, result, raw_mode, resizeLocals, event, out, tickLog>>

\* terminal::disable_raw_mode()?
DisableRaw ==
    /\ pc = "unraw"
    /\ \/ raw_mode' = FALSE /\ failed_at' = failed_at
       \/ raw_mode' = raw_mode /\ failed_at' = "unraw"
    /\ pc' = "exit"
    /\ UNCHANGED <<engine, frame_duration, aux, result, alt_screen, cursor_hidden, cleanup_ran,
                   resizeLocals, event, out, tickLog>>

\* the program as started: parse_args() has returned the configuration
Init ==
    /\ pc = "start"
    /\ \E f \in InitFps :
          /\ fps = f
          /\ frame_duration = 1000 \div f
    /\ density = DefaultDensity
    /\ cols = 0 /\ rows = 0
    /\ direction = "Down"
    /\ streams = <<>>
    /\ show_status = FALSE
    /\ status_timer = 0
    /\ status_clear_needed = FALSE
    /\ result = "none"
    /\ failed_at = ""
    /\ raw_mode = FALSE /\ alt_screen = FALSE /\ cursor_hidden = FALSE /\ cleanup_ran = FALSE
    /\ Idle
    /\ event = NoEvent
    /\ out = <<>>
    /\ dying = {}
    /\ free_seen = {}
    /\ pool_op = ""
    /\ probe = NoProbe
    /\ palette = "Arcane"
    /\ args = <<>>
    /\ arg_i = 0
    /\ pending = <<>>
    /\ screen = {}

Next ==
    \/ EnableRaw
    \/ EnterScreen
    \/ Construct
    \/ ResizeStep
    \/ PollNone
    \/ PollError
    \/ ReadKey
    \/ ReadResize
    \/ ReadOther
    \/ TickStep
    \/ RenderStep
    \/ RenderError
    \/ Sleep
    \/ Cleanup
    \/ DisableRaw

Spec == Init /\ [][Next]_vars

\* ── Direction::to_screen on its own ────────────────────────────────────
InitToScreen ==
    /\ pc = "probe"
    /\ cols \in 0 .. ProbeDim
    /\ rows \in 0 .. ProbeDim
    /\ direction \in Directions
    /\ \E l \in 0 .. ProbeDim, p \in -2 .. (ProbeDim + 2) :
          probe = [done |-> FALSE, lane |-> l, pos |-> p, at |-> None]
    /\ fps = DefaultFps
    /\ frame_duration = 1000 \div DefaultFps
    /\ density = DefaultDensity
    /\ streams = <<>>
    /\ show_status = FALSE
    /\ status_timer = 0
    /\ status_clear_needed = FALSE
    /\ result = "none"
    /\ failed_at = ""
    /\ raw_mode = FALSE /\ alt_screen = FALSE /\ cursor_hidden = FALSE /\ cleanup_ran = FALSE
    /\ Idle
    /\ event = NoEvent
    /\ out = <<>>
    /\ dying = {}
    /\ free_seen = {}
    /\ pool_op = ""
    /\ palette = "Arcane"
    /\ args = <<>>
    /\ arg_i = 0
    /\ pending = <<>>
    /\ screen = {}

ApplyToScreen ==
    /\ pc = "probe"
    /\ ~probe.done
    /\ probe' = [probe EXCEPT !.done = TRUE,
                              !.at = ToScreen(direction, probe.lane, probe.pos, cols, rows)]
    /\ UNCHANGED <<engine, pc, frame_duration, result, term, resizeLocals, event, out, tickLog,
                 palette, args, arg_i, pending, screen>>

SpecToScreen == InitToScreen /\ [][ApplyToScreen]_vars

\* ── Renderer::render on its own ────────────────────────────────────────
\* the states a stream passes through between its creation and its reset
LiveStream(lane, max_pos) ==
    {[lane |-> lane, pos |-> p, speed |-> sp, tick_counter |-> 0, trail_len |-> tl,
      active |-> TRUE, chars |-> Glyphs(tl)] :
        sp \in SpeedRange, tl \in TrailLenRange(max_pos),
        p \in (1 - Max(max_pos, 1)) .. (MinTrailCap + max_pos)}

\* run_loop about to call render(): any grid and direction, the default density,
\* the one stream that density gives at any point of its life, the status line
\* shown, run out or about to be blanked
InitRender ==
    /\ pc = "render"
    /\ cols \in 0 .. ProbeDim
    /\ rows \in 0 .. ProbeDim
    /\ direction \in Directions
    /\ density = DefaultDensity
    /\ IF MaxLanes(direction, cols, rows) = 0
       THEN streams = <<>>
       ELSE \E l \in 0 .. (MaxLanes(direction, cols, rows) - 1) :
               \E st \in LiveStream(l, MaxPos(direction, cols, rows)) :
                  /\ st.pos <= st.trail_len + MaxPos(direction, cols, rows)
                  /\ streams = <<st>>
    /\ fps \in InitFps
    /\ frame_duration = 1000 \div fps
    /\ show_status = TRUE
    /\ status_timer \in {0, fps * StatusSeconds}
    /\ status_clear_needed \in BOOLEAN
    /\ result = "none"
    /\ failed_at = ""
    /\ raw_mode = TRUE /\ alt_screen = TRUE /\ cursor_hidden = TRUE /\ cleanup_ran = FALSE
    /\ Idle
    /\ event = NoEvent
    /\ out = <<>>
    /\ dying = {}
    /\ free_seen = {}
    /\ pool_op = "tick"
    /\ probe = NoProbe
    /\ palette = "Arcane"
    /\ args = <<>>
    /\ arg_i = 0
    /\ pending = <<>>
    /\ screen = {}

SpecRender == InitRender /\ [][RenderStep]_vars

\* ── the frame-rate keys ────────────────────────────────────────────────
SpeedKeys == {Key("+", FALSE), Key("=", FALSE), Key("-", FALSE)}

ReadSpeedKey ==
    /\ pc = "poll"
    /\ \E e \in SpeedKeys :
          /\ event' = e
          /\ KeySpeed(e)
    /\ UNCHANGED <<aux, term, out, tickLog>>

\* run_loop entered on a terminal without cells, for every fps parse_args allows
InitSpeed ==
    /\ pc = "poll"
    /\ cols = 0 /\ rows = 0
    /\ direction = "Down"
    /\ density = DefaultDensity
    /\ streams = <<>>
    /\ fps \in MinFps .. MaxFps
    /\ frame_duration = 1000 \div fps
    /\ show_status = TRUE
    /\ status_timer = fps * StatusSeconds
    /\ status_clear_needed = FALSE
    /\ result = "none"
    /\ failed_at = ""
    /\ raw_mode = TRUE /\ alt_screen = TRUE /\ cursor_hidden = TRUE /\ cleanup_ran = FALSE
    /\ Idle
    /\ event = NoEvent
    /\ out = <<>>
    /\ dying = {}
    /\ free_seen = {}
    /\ pool_op = "new"
    /\ probe = NoProbe
    /\ palette = "Arcane"
    /\ args = <<>>
    /\ arg_i = 0
    /\ pending = <<>>
    /\ screen = {}

NextSpeed == ReadSpeedKey \/ PollNone \/ TickStep \/ RenderStep \/ Sleep

SpecSpeed == InitSpeed /\ [][NextSpeed]_vars

\* ── the status overlay under the keys that move its countdown ──────────
\* 'i' toggles the overlay, 'x' stands for every key that only pokes it
OverlayKeys == {Key("i", FALSE), Key("x", FALSE)}

ReadOverlayKey ==
    /\ pc = "poll"
    /\ \E e \in OverlayKeys :
          /\ event' = e
          /\ \/ KeyToggleStatus(e)
             \/ KeyUnbound(e)
    /\ UNCHANGED <<frame_duration, aux, term, out, tickLog>>

\* run_loop entered on a terminal of one row and no column (no stream, the
\* overlay alone is painted), for every fps parse_args allows
InitOverlay ==
    /\ pc = "poll"
    /\ cols = 0 /\ rows = 1
    /\ direction = "Down"
    /\ density = DefaultDensity
    /\ streams = <<>>
    /\ fps \in MinFps .. MaxFps
    /\ frame_duration = 1000 \div fps
    /\ show_status = TRUE
    /\ status_timer = fps * StatusSeconds
    /\ status_clear_needed = FALSE
    /\ result = "none"
    /\ failed_at = ""
    /\ raw_mode = TRUE /\ alt_screen = TRUE /\ cursor_hidden = TRUE /\ cleanup_ran = FALSE
    /\ Idle
    /\ event = NoEvent
    /\ out = <<>>
    /\ dying = {}
    /\ free_seen = {}
    /\ pool_op = "new"
    /\ probe = NoProbe
    /\ palette = "Arcane"
    /\ args = <<>>
    /\ arg_i = 0
    /\ pending = <<>>
    /\ screen = {}

NextOverlay ==
    \/ ReadSpeedKey
    \/ ReadOverlayKey
    \/ PollNone
    \/ TickStep
    \/ RenderStep
    \/ Sleep

SpecOverlay == InitOverlay /\ [][NextOverlay]_vars

\* Event::Resize(w, h)
Resized(w, h) == [kind |-> "resize", code |-> "", ctrl |-> FALSE, w |-> w, h |-> h]

\* ── a pool that is only ticked ─────────────────────────────────────────
\* the lowest density parse_args lets through: one stream on every grid of the model
TickDensities == {10}

\* the engine at the start of resize()'s loop, for any grid, direction and
\* density; from then on tick() is the only operation called
InitTicks ==
    /\ \E sz \in TermSizes, dir \in Directions, d \in TickDensities :
         LET w == sz[1]
             h == sz[2]
             max_lanes == MaxLanes(dir, w, h)
             n == Min(Target(max_lanes, d), max_lanes)
         IN  /\ cols = w /\ rows = h
             /\ direction = dir
             /\ density = d
             /\ pc = IF n = 0 THEN "idle" ELSE "resize"
             /\ available = IF n = 0 THEN <<>> ELSE AllLanes(max_lanes)
             /\ todo = n
             /\ ret = IF n = 0 THEN "" ELSE "idle"
    /\ show_status = TRUE
    /\ status_timer = 0
    /\ status_clear_needed = FALSE
    /\ fps = MinFps
    /\ frame_duration = 1000 \div MinFps
    /\ streams = <<>>
    /\ result = "none"
    /\ failed_at = ""
    /\ raw_mode = TRUE /\ alt_screen = TRUE /\ cursor_hidden = TRUE /\ cleanup_ran = FALSE
    /\ event = NoEvent
    /\ out = <<>>
    /\ dying = {}
    /\ free_seen = {}
    /\ pool_op = "resize"
    /\ probe = NoProbe
    /\ palette = "Arcane"
    /\ args = <<>>
    /\ arg_i = 0
    /\ pending = <<>>
    /\ screen = {}

NextTicks == ResizeStep \/ ApiTick

\* run_loop calls renderer.tick() in every iteration
SpecTicks == InitTicks /\ [][NextTicks]_vars /\ WF_vars(ResizeStep) /\ WF_vars(ApiTick)

\* ── run_loop and the cells of the terminal ─────────────────────────────
\* the terminal the run is on: one column, two rows (the lower one is the
\* overlay's row)
ScreenSizes == {<<1, 2>>}

\* the densities followed: '[' and ']' move the density by 0.05 around the default
DensityStep == 5
ScreenDensities == {DefaultDensity - DensityStep, DefaultDensity, DefaultDensity + DensityStep}

\* '1', '2': two of the palette keys
PaletteKeys == [c \in {"1", "2"} |-> IF c = "1" THEN "Arcane" ELSE "Emerald"]

\* one queued paint reaching the terminal: a glyph fills its cell, a blank
\* empties it, the status line (text or spaces) takes its row from x on
DrawOne(scr, p) ==
    IF p.kind \in {"glyph", "head"} THEN scr \cup {<<p.x, p.y>>}
    ELSE IF p.kind = "blank" THEN scr \ {<<p.x, p.y>>}
    ELSE {c \in scr : ~(c[2] = p.y /\ c[1] >= p.x)}

RECURSIVE Draw(_, _, _)
Draw(scr, paints, k) ==
    IF k > Len(paints) THEN scr ELSE Draw(DrawOne(scr, paints[k]), paints, k + 1)

\* '[' | ']': renderer.change_density(-0.05 | 0.05), then poke_status()
KeyDensity(e) ==
    /\ e.code \in {"[", "]"}
    /\ LET d == ClampDensity(density + (IF e.code = "[" THEN 0 - DensityStep ELSE DensityStep))
       IN  /\ d \in ScreenDensities
           /\ density' = d
           /\ BeginResize(cols, rows, direction, d, "tick")
    /\ pool_op' = "change_density"
    /\ PokeStatus
    /\ screen' = screen
    /\ UNCHANGED <<direction, show_status, fps, palette>>

\* the arrow keys: Clear(All), renderer.change_direction(d), then poke_status()
KeyDirection(e) ==
    /\ e.code \in Directions
    /\ screen' = {}
    /\ IF direction # e.code
       THEN /\ direction' = e.code
            /\ BeginResize(cols, rows, e.code, density, "tick")
            /\ pool_op' = "change_direction"
       ELSE /\ pc' = "tick"
            /\ UNCHANGED <<cols, rows, direction, streams, pool_op, resizeLocals>>
    /\ PokeStatus
    /\ UNCHANGED <<density, show_status, fps, palette>>

\* '1'..'5', '0': renderer.palette = ..., then poke_status()
KeyPalette(e) ==
    /\ e.code \in DOMAIN PaletteKeys
    /\ palette' = PaletteKeys[e.code]
    /\ PokeStatus
    /\ pc' = "tick"
    /\ screen' = screen
    /\ UNCHANGED <<cols, rows, direction, streams, density, show_status, fps, pool_op,
                   resizeLocals>>

\* 'a', 'e', 'y', 's', 'o', 'm': renderer.rune_set = ..., then poke_status();
\* the glyphs of the model are one token, so only the poke shows
KeyRuneSet(e) ==
    /\ e.code = "e"
    /\ PokeStatus
    /\ pc' = "tick"
    /\ screen' = screen
    /\ UNCHANGED <<cols, rows, direction, streams, density, show_status, fps, pool_op,
                   resizeLocals, palette>>

ScreenKeys ==
    {Key(c, FALSE) : c \in {"[", "]", "e"} \cup Directions \cup DOMAIN PaletteKeys}

ReadScreenKey ==
    /\ pc = "poll"
    /\ \E e \in ScreenKeys :
          /\ event' = e
          /\ \/ KeyDensity(e)
             \/ KeyDirection(e)
             \/ KeyPalette(e)
             \/ KeyRuneSet(e)
    /\ UNCHANGED <<frame_duration, probe, args, arg_i, pending, result, term, out, tickLog>>

\* Event::Resize(w, h): Clear(All), then renderer.resize(w, h)
ReadScreenResize ==
    /\ pc = "poll"
    /\ \E sz \in ScreenSizes :
          /\ event' = Resized(sz[1], sz[2])
          /\ BeginResize(sz[1], sz[2], direction, density, "tick")
    /\ pool_op' = "resize"
    /\ screen' = {}
    /\ UNCHANGED <<direction, density, overlay, frame_duration, probe, palette, args, arg_i,
                   pending, result, term, out, tickLog>>

\* renderer.render(stdout)?: the queued paints reach the terminal
ScreenRender ==
    /\ pc = "render"
    /\ Render
    /\ pc' = "sleep"
    /\ ClearTickLog
    /\ screen' = Draw(screen, out', 1)
    /\ UNCHANGED <<frame_duration, probe, palette, args, arg_i, pending, result, term,
                   resizeLocals, event>>

\* Renderer::new on the terminal, inside its resize loop; run_loop follows
InitScreen ==
    /\ \E sz \in ScreenSizes :
         /\ cols = sz[1] /\ rows = sz[2]
         /\ available = AllLanes(MaxLanes("Down", sz[1], sz[2]))
    /\ pc = "resize"
    /\ todo = 1
    /\ ret = "poll"
    /\ direction = "Down"
    /\ density = DefaultDensity
    /\ show_status = TRUE
    /\ fps = MinFps
    /\ status_timer = MinFps * StatusSeconds
    /\ status_clear_needed = FALSE
    /\ frame_duration = 1000 \div MinFps
    /\ streams = <<>>
    /\ result = "none"
    /\ failed_at = ""
    /\ raw_mode = TRUE /\ alt_screen = TRUE /\ cursor_hidden = TRUE /\ cleanup_ran = FALSE
    /\ event = NoEvent
    /\ out = <<>>
    /\ dying = {}
    /\ free_seen = {}
    /\ pool_op = "new"
    /\ probe = NoProbe
    /\ palette = "Arcane"
    /\ args = <<>>
    /\ arg_i = 0
    /\ pending = <<>>
    /\ screen = {}

NextScreen ==
    \/ ReadScreenKey
    \/ ReadScreenResize
    \/ PollNone
    \/ ResizeStep
    \/ TickStep
    \/ ScreenRender
    \/ Sleep

SpecScreen == InitScreen /\ [][NextScreen]_vars

\* ── run_loop on a queue of pending events ──────────────────────────────
\* the events the terminal may hold when an iteration starts
QueueEvents == {Key("x", FALSE), Resized(0, 0), Resized(1, 1)}
QueueLists == UNION {[1 .. n -> QueueEvents] : n \in 0 .. MaxPending}

\* event::poll is true and event::read returns the oldest pending event: the
\* iteration handles this one event and goes on to tick and render
ReadPending ==
    /\ pc = "poll"
    /\ pending # <<>>
    /\ pending' = Tail(pending)
    /\ event' = Head(pending)
    /\ \/ /\ Head(pending).kind = "key"
          /\ KeyUnbound(Head(pending))
       \/ /\ Head(pending).kind = "resize"
          /\ \/ /\ BeginResize(Head(pending).w, Head(pending).h, direction, density, "tick")
                /\ pool_op' = "resize"
                /\ UNCHANGED <<direction, density, overlay, result>>
             \/ /\ pc' = "cleanup"
                /\ result' = "err"
                /\ UNCHANGED <<engine, resizeLocals>>
    /\ UNCHANGED <<frame_duration, probe, palette, args, arg_i, screen, term, out, tickLog>>

\* event::poll is false
PollEmpty == pending = <<>> /\ PollNone

\* run_loop entered on a terminal without cells, with any events pending
InitQueue ==
    /\ pc = "poll"
    /\ pending \in QueueLists
    /\ screen = {}
    /\ cols = 0 /\ rows = 0
    /\ direction = "Down"
    /\ density = DefaultDensity
    /\ streams = <<>>
    /\ fps \in InitFps
    /\ frame_duration = 1000 \div fps
    /\ show_status = TRUE
    /\ status_timer = fps * StatusSeconds
    /\ status_clear_needed = FALSE
    /\ result = "none"
    /\ failed_at = ""
    /\ raw_mode = TRUE /\ alt_screen = TRUE /\ cursor_hidden = TRUE /\ cleanup_ran = FALSE
    /\ Idle
    /\ event = NoEvent
    /\ out = <<>>
    /\ dying = {}
    /\ free_seen = {}
    /\ pool_op = "new"
    /\ probe = NoProbe
    /\ palette = "Arcane"
    /\ args = <<>>
    /\ arg_i = 0

NextQueue == ReadPending \/ PollEmpty \/ ResizeStep \/ TickStep \/ RenderStep \/ Sleep

SpecQueue == InitQueue /\ [][NextQueue]_vars

\* ── the engine under every step of a running program ───────────────────
\* terminal sizes with a zero width, a zero height, both, or neither
StepSizes == (0 .. 1) \X (0 .. 1)

\* the frame durations followed: the slow end of the range, where fps is lowest
StepMillis == {fd \in MinFrameMillis .. MaxFrameMillis : fd >= MaxFrameMillis - FrameStep}

StepResize ==
    /\ pc = "idle"
    /\ \E sz \in StepSizes : BeginResize(sz[1], sz[2], direction, density, "idle")
    /\ pool_op' = "resize"
    /\ out' = <<>>
    /\ ClearTickLog
    /\ event' = NoEvent
    /\ UNCHANGED <<direction, density, overlay, frame_duration, aux, result, term>>

\* renderer.change_direction(d)
StepChangeDirection ==
    /\ pc = "idle"
    /\ \E d \in Directions : ChangeDirection(d, "idle")
    /\ out' = <<>>
    /\ ClearTickLog
    /\ event' = NoEvent
    /\ UNCHANGED <<frame_duration, aux, result, term>>

\* renderer.poke_status()
StepPoke ==
    /\ pc = "idle"
    /\ PokeStatus
    /\ out' = <<>>
    /\ ClearTickLog
    /\ event' = NoEvent
    /\ UNCHANGED <<cols, rows, direction, streams, density, show_status, fps, pc, pool_op,
                   frame_duration, aux, result, term, resizeLocals>>

\* the '+' | '=' and '-' arms: frame_duration, renderer.fps, then poke_status()
StepSpeed ==
    /\ pc = "idle"
    /\ \E code \in {"+", "-"} :
          /\ frame_duration' = IF code = "-" THEN SlowerMillis(frame_duration)
                                              ELSE FasterMillis(frame_duration)
    /\ frame_duration' \in StepMillis
    /\ fps' = 1000 \div frame_duration'
    /\ status_timer' = fps' * StatusSeconds
    /\ status_clear_needed' = FALSE
    /\ out' = <<>>
    /\ ClearTickLog
    /\ event' = NoEvent
    /\ UNCHANGED <<cols, rows, direction, streams, density, show_status, pc, pool_op, aux, result,
                   term, resizeLocals>>

\* renderer.render(stdout)
StepRender ==
    /\ pc = "idle"
    /\ Render
    /\ ClearTickLog
    /\ event' = NoEvent
    /\ UNCHANGED <<pc, frame_duration, aux, result, term, resizeLocals>>

\* Renderer::new on a terminal of one of the sizes, at the lowest fps
InitSteps ==
    /\ \E sz \in StepSizes :
         LET max_lanes == MaxLanes("Down", sz[1], sz[2])
             n == Min(Target(max_lanes, DefaultDensity), max_lanes)
         IN  /\ cols = sz[1] /\ rows = sz[2]
             /\ pc = IF n = 0 THEN "idle" ELSE "resize"
             /\ available = IF n = 0 THEN <<>> ELSE AllLanes(max_lanes)
             /\ todo = n
             /\ ret = IF n = 0 THEN "" ELSE "idle"
    /\ direction = "Down"
    /\ density = DefaultDensity
    /\ show_status = TRUE
    /\ fps = MinFps
    /\ status_timer = MinFps * StatusSeconds
    /\ status_clear_needed = FALSE
    /\ frame_duration = 1000 \div MinFps
    /\ streams = <<>>
    /\ result = "none"
    /\ failed_at = ""
    /\ raw_mode = TRUE /\ alt_screen = TRUE /\ cursor_hidden = TRUE /\ cleanup_ran = FALSE
    /\ event = NoEvent
    /\ out = <<>>
    /\ dying = {}
    /\ free_seen = {}
    /\ pool_op = "new"
    /\ probe = NoProbe
    /\ palette = "Arcane"
    /\ args = <<>>
    /\ arg_i = 0
    /\ pending = <<>>
    /\ screen = {}

NextSteps ==
    \/ StepResize
    \/ ApiTick
    \/ ApiChangeDensity
    \/ StepChangeDirection
    \/ StepPoke
    \/ StepSpeed
    \/ StepRender
    \/ ResizeStep

SpecSteps == InitSteps /\ [][NextSteps]_vars

\* ── hsl_to_rgb ─────────────────────────────────────────────────────────
\* h is in whole degrees, s and l in hundredths; the arithmetic is exact, with
\* every intermediate value kept as a numerator over HslDenom
Abs(n) == IF n < 0 THEN 0 - n ELSE n
\* f32 % : the remainder takes the sign of the dividend
Fmod(a, b) == IF a >= 0 THEN a % b ELSE 0 - ((0 - a) % b)
HslDenom == 120 * 100 * 100
\* `as u8` on a float: truncation, saturating at 0 and 255
AsU8(num, den) == IF num <= 0 THEN 0 ELSE Min(num \div den, 255)
\* hp as u32: truncation, negative values give 0
HueSector(h) == IF h < 0 THEN 0 ELSE h \div 60

SectorRgbRotated(sector, c, x) ==
    CASE sector = 0 -> <<c, x, 0>>
      [] sector = 1 -> <<x, c, 0>>
      [] sector = 2 -> <<x, 0, c>>
      [] sector = 3 -> <<0, x, c>>
      [] sector = 4 -> <<0, c, x>>
      [] OTHER -> <<c, 0, x>>
SectorRgb(sector, c, x) ==
    CASE sector = 0 -> <<c, x, 0>>
      [] sector = 1 -> <<x, c, 0>>
      [] sector = 2 -> <<0, c, x>>
      [] sector = 3 -> <<0, x, c>>
      [] sector = 4 -> <<x, 0, c>>
      [] OTHER -> <<c, 0, x>>

HslToRgb(h, s, l) ==
    LET c == (100 - Abs(2 * l - 100)) * s * 120
        x == (100 - Abs(2 * l - 100)) * s * 2 * (60 - Abs(Fmod(h, 120) - 60))
        rgb1 == SectorRgb(HueSector(h), c, x)
        m == l * 100 * 120 - (c \div 2)
    IN  <<AsU8((rgb1[1] + m) * 255, HslDenom),
          AsU8((rgb1[2] + m) * 255, HslDenom),
          AsU8((rgb1[3] + m) * 255, HslDenom)>>

\* hues below, within and beyond [0, 360), every saturation step of a tenth,
\* every lightness step of a hundredth
Hues == {h \in -60 .. 420 : h % 15 = 0}
Saturations == {sat \in 0 .. 100 : sat % 10 = 0}
Lightnesses == 0 .. 100

InitHsl ==
    /\ pc = "probe"
    /\ \E h \in Hues, sat \in Saturations, l \in Lightnesses :
          probe = [done |-> FALSE, h |-> h, s |-> sat, l |-> l, rgb |-> <<0, 0, 0>>]
    /\ palette = "Arcane"
    /\ args = <<>>
    /\ arg_i = 0
    /\ pending = <<>>
    /\ screen = {}
    /\ fps = DefaultFps
    /\ frame_duration = 1000 \div DefaultFps
    /\ density = DefaultDensity
    /\ cols = 0 /\ rows = 0
    /\ direction = "Down"
    /\ streams = <<>>
    /\ show_status = FALSE
    /\ status_timer = 0
    /\ status_clear_needed = FALSE
    /\ result = "none"
    /\ failed_at = ""
    /\ raw_mode = FALSE /\ alt_screen = FALSE /\ cursor_hidden = FALSE /\ cleanup_ran = FALSE
    /\ Idle
    /\ event = NoEvent
    /\ out = <<>>
    /\ dying = {}
    /\ free_seen = {}
    /\ pool_op = ""

ApplyHsl ==
    /\ pc = "probe"
    /\ ~probe.done
    /\ probe' = [probe EXCEPT !.done = TRUE, !.rgb = HslToRgb(probe.h, probe.s, probe.l)]
    /\ UNCHANGED <<engine, pc, frame_duration, result, term, resizeLocals, event, out, tickLog,
                   palette, args, arg_i, pending, screen>>

SpecHsl == InitHsl /\ [][ApplyHsl]_vars

\* enum Palette
Palettes == {"Arcane", "Emerald", "Frost", "Ember", "Rainbow", "BlinkingRainbow"}

\* ── Palette::color ─────────────────────────────────────────────────────
\* intensity is in hundredths; the inputs of the model are chosen so that every
\* division below is exact (intensity in steps of 0.2, column_seed a multiple
\* of 17)
ClampIntensityNone(x) == x
ClampIntensity(x) == Clamp(x, 0, 100)

\* the multiplier of the blinking hue; for global_tick + coordinate +
\* column_seed below 2^30 the u64 product does not wrap, and its remainder
\* mod 360 is the remainder of the product of the remainders
BlinkMul == 1103515245
BlinkHue(n) == ((n % 360) * (BlinkMul % 360)) % 360

Color(pal, intensity, column_seed, global_tick, coordinate) ==
    LET i == ClampIntensity(intensity) IN
    CASE pal = "Arcane" ->
            <<AsU8(180 * i + 40 * (100 - i), 100),
              AsU8(60 * i + 10 * (100 - i), 100),
              AsU8(255 * i + 80 * (100 - i), 100)>>
      [] pal = "Emerald" ->
            <<AsU8(50 * i, 100),
              AsU8(255 * i + 30 * (100 - i), 100),
              AsU8(80 * i + 10 * (100 - i), 100)>>
      [] pal = "Frost" ->
            <<AsU8(100 * i, 100),
              AsU8(200 * i + 40 * (100 - i), 100),
              AsU8(255 * i + 60 * (100 - i), 100)>>
      [] pal = "Ember" ->
            <<AsU8(255 * i + 60 * (100 - i), 100),
              AsU8(120 * i * i, 100 * 100),
              AsU8(30 * i, 100)>>
      [] pal = "Rainbow" ->
            HslToRgb(Fmod((column_seed * 360) \div 255 + (intensity * 60) \div 100, 360),
                     90, 25 + (45 * i) \div 100)
      [] pal = "BlinkingRainbow" ->
            HslToRgb(BlinkHue(global_tick + coordinate + column_seed),
                     100, 40 + (30 * i) \div 100)

Intensities == {x \in -100 .. 200 : x % 20 = 0}
ColumnSeeds == {0, 17, 85, 255}

InitColor ==
    /\ pc = "probe"
    /\ palette \in Palettes
    /\ \E x \in Intensities, seed \in ColumnSeeds, t \in 0 .. ProbeDim, at \in 0 .. ProbeDim :
          probe = [done |-> FALSE, intensity |-> x, column_seed |-> seed, global_tick |-> t,
                   coordinate |-> at, rgb |-> <<0, 0, 0>>]
    /\ args = <<>>
    /\ arg_i = 0
    /\ pending = <<>>
    /\ screen = {}
    /\ fps = DefaultFps
    /\ frame_duration = 1000 \div DefaultFps
    /\ density = DefaultDensity
    /\ cols = 0 /\ rows = 0
    /\ direction = "Down"
    /\ streams = <<>>
    /\ show_status = FALSE
    /\ status_timer = 0
    /\ status_clear_needed = FALSE
    /\ result = "none"
    /\ failed_at = ""
    /\ raw_mode = FALSE /\ alt_screen = FALSE /\ cursor_hidden = FALSE /\ cleanup_ran = FALSE
    /\ Idle
    /\ event = NoEvent
    /\ out = <<>>
    /\ dying = {}
    /\ free_seen = {}
    /\ pool_op = ""

ApplyColor ==
    /\ pc = "probe"
    /\ ~probe.done
    /\ probe' = [probe EXCEPT !.done = TRUE,
                              !.rgb = Color(palette, probe.intensity, probe.column_seed,
                                            probe.global_tick, probe.coordinate)]
    /\ UNCHANGED <<engine, pc, frame_duration, result, term, resizeLocals, event, out, tickLog,
                   palette, args, arg_i, pending, screen>>

SpecColor == InitColor /\ [][ApplyColor]_vars

\* ── parse_args ─────────────────────────────────────────────────────────
\* the argument strings of the model: the flags, numbers below, within and
\* above the ranges, a fraction, the float literal "nan", palette names in
\* mixed case, and words that are none of these
ArgWords ==
    {"--fps", "-f", "--density", "-d", "--palette", "-p", "--help", "-h",
     "3", "30", "99", "0.05", "0.5", "nan", "emerald", "GREEN", "bogus"}

\* a parse that fails, and the f32 value NaN
NoParse == [ok |-> FALSE, v |-> 0]
Parsed(v) == [ok |-> TRUE, v |-> v]
NaN == 0 - 1

\* str::parse::<u64>: decimal digits only
ParseU64(w) ==
    CASE w = "3" -> Parsed(3)
      [] w = "30" -> Parsed(30)
      [] w = "99" -> Parsed(99)
      [] OTHER -> NoParse

\* str::parse::<f32>, in hundredths: decimal numbers, and "nan" in any case
ParseF32(w) ==
    CASE w = "3" -> Parsed(300)
      [] w = "30" -> Parsed(3000)
      [] w = "99" -> Parsed(9900)
      [] w = "0.05" -> Parsed(5)
      [] w = "0.5" -> Parsed(50)
      [] w = "nan" -> Parsed(NaN)
      [] OTHER -> NoParse

UnwrapOr(p, d) == IF p.ok THEN p.v ELSE d

\* f32::clamp: NaN stays NaN
ClampF32(x, lo, hi) == IF x = NaN THEN NaN ELSE Clamp(x, lo, hi)

ToLowercase(w) == IF w = "GREEN" THEN "green" ELSE w

PaletteFromStr(w) ==
    LET l == ToLowercase(w) IN
    CASE l \in {"emerald", "green"} -> "Emerald"
      [] l \in {"frost", "blue", "cyan"} -> "Frost"
      [] l \in {"ember", "red", "fire"} -> "Ember"
      [] l \in {"rainbow", "multi"} -> "Rainbow"
      [] l \in {"blinking", "blink", "cmatrix"} -> "BlinkingRainbow"
      [] OTHER -> "Arcane"

ArgLists == UNION {[1 .. n -> ArgWords] : n \in 0 .. MaxArgs}

\* one iteration of the while loop; arg_i counts the arguments after args[0]
ParseArg ==
    /\ pc = "args"
    /\ arg_i <= Len(args)
    /\ args[arg_i] \notin {"--help", "-h"}
    /\ LET w == args[arg_i]
           has == arg_i + 1 <= Len(args)
           isP == w \in {"--palette", "-p"} /\ has
           isF == w \in {"--fps", "-f"} /\ has
           isD == w \in {"--density", "-d"} /\ has
       IN  /\ palette' = IF isP THEN PaletteFromStr(args[arg_i + 1]) ELSE palette
           /\ fps' = IF isF THEN Clamp(UnwrapOr(ParseU64(args[arg_i + 1]), DefaultFps),
                                       MinFps, MaxFps)
                            ELSE fps
           /\ density' = IF isD THEN ClampF32(UnwrapOr(ParseF32(args[arg_i + 1]),
                                                       DefaultDensity), 10, DensityMax)
                                ELSE density
           /\ arg_i' = IF isP \/ isF \/ isD THEN arg_i + 2 ELSE arg_i + 1
    /\ UNCHANGED <<cols, rows, direction, streams, show_status, status_timer,
                   status_clear_needed, pool_op, pc, frame_duration, result, term,
                   resizeLocals, event, out, tickLog, probe, args, pending,
                   screen>>

\* "--help" | "-h": print the usage and std::process::exit(0)
ParseHelp ==
    /\ pc = "args"
    /\ arg_i <= Len(args)
    /\ args[arg_i] \in {"--help", "-h"}
    /\ pc' = "exit"
    /\ result' = "help"
    /\ UNCHANGED <<engine, frame_duration, aux, term, resizeLocals, event, out, tickLog>>

\* the loop ends: parse_args returns the Config and main computes frame_duration
ParseDone ==
    /\ pc = "args"
    /\ arg_i > Len(args)
    /\ pc' = "start"
    /\ frame_duration' = 1000 \div fps
    /\ UNCHANGED <<engine, aux, result, term, resizeLocals, event, out, tickLog>>

InitArgs ==
    /\ pc = "args"
    /\ args \in ArgLists
    /\ arg_i = 1
    /\ palette = "Arcane"
    /\ fps = DefaultFps
    /\ density = DefaultDensity
    /\ frame_duration = 0
    /\ cols = 0 /\ rows = 0
    /\ direction = "Down"
    /\ streams = <<>>
    /\ show_status = TRUE
    /\ status_timer = 0
    /\ status_clear_needed = FALSE
    /\ result = "none"
    /\ failed_at = ""
    /\ raw_mode = FALSE /\ alt_screen = FALSE /\ cursor_hidden = FALSE /\ cleanup_ran = FALSE
    /\ Idle
    /\ event = NoEvent
    /\ out = <<>>
    /\ dying = {}
    /\ free_seen = {}
    /\ pool_op = ""
    /\ probe = NoProbe
    /\ pending = <<>>
    /\ screen = {}

NextArgs == ParseArg \/ ParseHelp \/ ParseDone

SpecArgs == InitArgs /\ [][NextArgs]_vars

\* ══ Properties ═════════════════════════════════════════════════════════
Rebuilds == {"new", "resize", "change_density", "change_direction"}

\* ── C1 ─────────────────────────────────────────────────────────────────
C1_Lanes == IF direction \in {"Down", "Up"} THEN cols ELSE rows
C1_Floor == (C1_Lanes * density) \div 100
C1_AtLeastOne == IF C1_Floor > 1 THEN C1_Floor ELSE 1
C1_Capped == IF C1_AtLeastOne < C1_Lanes THEN C1_AtLeastOne ELSE C1_Lanes
C1_Rebuilt == pc = "idle" /\ pool_op \in Rebuilds
C1_LanesGood ==
    /\ \A i \in 1 .. Len(streams) : streams[i].lane >= 0 /\ streams[i].lane < C1_Lanes
    /\ \A i, j \in 1 .. Len(streams) : i # j => streams[i].lane # streams[j].lane

\* C1 as stated: once resize has returned (called by the constructor, directly,
\* or through change_density / change_direction) the pool holds exactly
\* max(1, floor(maxLanes * density)) streams for every grid size, each on a
\* lane in [0, maxLanes) and no two on the same lane.
C1_PoolSizeAsStated ==
    C1_Rebuilt => Len(streams) = C1_AtLeastOne /\ C1_LanesGood

\* C1 amended: once resize has returned the pool holds exactly
\* min(maxLanes, max(1, floor(maxLanes * density))) streams, which is
\* max(1, floor(maxLanes * density)) on a grid with at least one lane and none
\* on a grid without lanes; each stream is on a lane in [0, maxLanes), no two
\* on the same lane, and the density is within [0.05, 1.0]. The count being a
\* function of grid, direction and density, a repeated resize leaves it as it was.
C1_PoolSize ==
    C1_Rebuilt =>
        /\ density >= 5 /\ density <= 100
        /\ Len(streams) = C1_Capped
        /\ C1_LanesGood

C1_Witness ==
    /\ C1_Rebuilt
    /\ pool_op = "resize"
    /\ cols = 2 /\ direction = "Down" /\ density = 100
    /\ Len(streams) = 2
    /\ streams[1].lane # streams[2].lane

\* ── C2 ─────────────────────────────────────────────────────────────────
\* C2: within one tick, when at least as many lanes are free after the advance
\* phase as streams became inactive, every stream that became inactive sits,
\* after the tick, on a lane that was free, and no two of them on the same lane.
C2_DistinctFreeLanes ==
    (pool_op = "tick" /\ Cardinality(free_seen) >= Cardinality(dying)) =>
        /\ \A i \in dying : streams[i].lane \in free_seen
        /\ \A i, j \in dying : i # j => streams[i].lane # streams[j].lane

C2_Witness ==
    /\ pool_op = "tick"
    /\ Cardinality(dying) = 2
    /\ Cardinality(free_seen) = 2

\* ── C3 ─────────────────────────────────────────────────────────────────
\* C3: the program has run the terminal restoration whenever it exits after
\* raw mode and the alternate screen were entered: after a normal quit, after
\* an I/O error inside the loop, and after the engine constructor failed to
\* read the grid dimensions.
C3_RestoredOnEveryExit ==
    (pc = "exit" /\ (result \in {"ok", "err"} \/ failed_at = "new")) => cleanup_ran

\* ── C4 ─────────────────────────────────────────────────────────────────
C4_IsQ(e) == e.kind = "key" /\ e.code = "q"
C4_IsCtrlC(e) == e.kind = "key" /\ e.code = "c" /\ e.ctrl

\* C4: once the run loop has read a 'q' key event or a Ctrl+C key event (the
\* character 'c' with the control modifier) it has returned: the program is in
\* main's cleanup or beyond, never back in the frame.
C4_QOrCtrlCExits ==
    (C4_IsQ(event) \/ C4_IsCtrlC(event)) => pc \in {"cleanup", "unraw", "exit"}

\* ── C5 ─────────────────────────────────────────────────────────────────
C5_IsQuitKey(e) == e.kind = "key" /\ e.code \in {"q", "Q", "Esc"}

\* C5: the step that reads a quit key ('q', 'Q' or Esc), and every step after
\* it, leaves the engine state as it was, has run_loop's result Ok and is in
\* main's cleanup or beyond: no tick, render, status poke or sleep follows.
C5_QuitReturnsAtOnce ==
    [][C5_IsQuitKey(event') =>
          /\ pc' \in {"cleanup", "unraw", "exit"}
          /\ result' = "ok"
          /\ UNCHANGED engine]_vars

C5_Witness ==
    /\ pc = "exit"
    /\ event = Key("Q", FALSE)
    /\ result = "ok"
    /\ streams # <<>>
    /\ status_timer > 0

\* ── C6 ─────────────────────────────────────────────────────────────────
C6_Bound == IF direction \in {"Down", "Up"} THEN rows ELSE cols
C6_OnGrid == probe.pos >= 0 /\ probe.pos < C6_Bound
C6_X ==
    CASE direction \in {"Down", "Up"} -> probe.lane
      [] direction = "Right" -> probe.pos
      [] direction = "Left" -> cols - 1 - probe.pos
C6_Y ==
    CASE direction = "Down" -> probe.pos
      [] direction = "Up" -> rows - 1 - probe.pos
      [] direction \in {"Left", "Right"} -> probe.lane
C6_Forward == IF direction \in {"Down", "Up"} THEN "Down" ELSE "Right"

\* C6: for every lane and signed pos, to_screen gives Some((lane, pos)) for
\* Down, Some((lane, h-1-pos)) for Up, Some((pos, lane)) for Right and
\* Some((w-1-pos, lane)) for Left when pos is within [0, bound), and None when
\* it is not; the result for a reverse direction is the result of the forward
\* direction at the mirrored position bound-1-pos.
C6_ToScreen ==
    probe.done =>
        /\ probe.at.some = C6_OnGrid
        /\ C6_OnGrid => probe.at.x = C6_X /\ probe.at.y = C6_Y
        /\ direction \in {"Up", "Left"} =>
              probe.at = ToScreen(C6_Forward, probe.lane, C6_Bound - 1 - probe.pos, cols, rows)

C6_Witness ==
    /\ probe.done
    /\ direction = "Up"
    /\ probe.at.some
    /\ probe.at.y # probe.pos
    /\ probe.lane > 0

\* ── C7 ─────────────────────────────────────────────────────────────────
C7_Bound == IF direction \in {"Down", "Up"} THEN rows ELSE cols
C7_OnGrid(p) == p >= 0 /\ p < C7_Bound
C7_Paints(kind, k) == {j \in 1 .. Len(out) : out[j].kind = kind /\ out[j].stream = k}
C7_CellX(lane, p) ==
    CASE direction \in {"Down", "Up"} -> lane
      [] direction = "Right" -> p
      [] direction = "Left" -> cols - 1 - p
C7_CellY(lane, p) ==
    CASE direction = "Down" -> p
      [] direction = "Up" -> rows - 1 - p
      [] direction \in {"Left", "Right"} -> lane

\* C7: after render, for every active stream a glyph paint for trail index i
\* in [0, trail_len) is present exactly when pos - i lies in [0, bound), and
\* the stream has one blank, at the cell of travel position pos - trail_len,
\* when that position lies in [0, bound) and no blank otherwise.
C7_TrailAndErase ==
    pc = "sleep" =>
        \A k \in 1 .. Len(streams) :
            LET s == streams[k] IN
            s.active =>
                /\ \A i \in 0 .. (s.trail_len - 1) :
                      (\E j \in C7_Paints("glyph", k) : out[j].i = i) <=> C7_OnGrid(s.pos - i)
                /\ \A j \in C7_Paints("glyph", k) : out[j].i >= 0 /\ out[j].i < s.trail_len
                /\ Cardinality(C7_Paints("blank", k)) =
                      (IF C7_OnGrid(s.pos - s.trail_len) THEN 1 ELSE 0)
                /\ \A j \in C7_Paints("blank", k) :
                      /\ out[j].x = C7_CellX(s.lane, s.pos - s.trail_len)
                      /\ out[j].y = C7_CellY(s.lane, s.pos - s.trail_len)

C7_Witness ==
    /\ pc = "sleep"
    /\ Len(streams) = 1
    /\ C7_Paints("blank", 1) # {}
    /\ C7_Paints("glyph", 1) # {}
    /\ Cardinality(C7_Paints("glyph", 1)) < streams[1].trail_len

\* ── C8 ─────────────────────────────────────────────────────────────────
\* C8: a tick leaves the number of streams as it was and every stream active,
\* the ones that became inactive having been reset where they are; a step that
\* changes the number of streams belongs to a rebuild of the pool by resize
\* (called directly or by a density or direction change).
C8_TickKeepsPool ==
    [][/\ pool_op' = "tick" =>
              /\ Len(streams') = Len(streams)
              /\ \A i \in 1 .. Len(streams') : streams'[i].active
              /\ \A i \in dying' :
                    streams'[i].tick_counter = 0 /\ streams'[i].pos <= 0
       /\ Len(streams') # Len(streams) => pool_op' \in Rebuilds]_vars

C8_Witness ==
    /\ pool_op = "tick"
    /\ dying # {}
    /\ Len(streams) = 2
    /\ Cardinality(dying) = 1

\* ── C9 ─────────────────────────────────────────────────────────────────
C9_MaxPos == IF direction \in {"Down", "Up"} THEN rows ELSE cols
C9_TrailCap == IF C9_MaxPos - 2 > 6 THEN C9_MaxPos - 2 ELSE 6

\* C9: in every reachable state every stream has trail_len within
\* [4, max(6, max_pos - 2)], speed within [1, 4], tick_counter below speed and
\* exactly trail_len glyphs.
C9_StreamInvariant ==
    \A i \in 1 .. Len(streams) :
        LET s == streams[i] IN
        /\ s.trail_len >= 4 /\ s.trail_len <= C9_TrailCap
        /\ s.speed >= 1 /\ s.speed <= 4
        /\ s.tick_counter >= 0 /\ s.tick_counter < s.speed
        /\ Len(s.chars) = s.trail_len

C9_Witness ==
    /\ pool_op = "tick"
    /\ dying # {}
    /\ \E i \in dying : streams[i].trail_len > 6

\* ── C10 ────────────────────────────────────────────────────────────────
C10_Lanes == IF direction' \in {"Down", "Up"} THEN cols' ELSE rows'
C10_Floor == (C10_Lanes * density') \div 100
C10_AtLeastOne == IF C10_Floor > 1 THEN C10_Floor ELSE 1
C10_Count == IF C10_AtLeastOne < C10_Lanes THEN C10_AtLeastOne ELSE C10_Lanes

\* C10: a call of change_density, from its first step to its return, leaves
\* the density within [0.05, 1.0] and the grid dimensions and direction as they
\* were, starts from an empty pool and fills it with freshly created streams
\* only (tick_counter 0, head position not above 0), as many as the new density
\* asks for.
C10_ChangeDensity ==
    [][pool_op' = "change_density" =>
          /\ density' >= 5 /\ density' <= 100
          /\ cols' = cols /\ rows' = rows /\ direction' = direction
          /\ \A i \in 1 .. Len(streams') :
                streams'[i].tick_counter = 0 /\ streams'[i].pos <= 0 /\ streams'[i].active
          /\ (pc = "idle" /\ pc' = "resize") => streams' = <<>>
          /\ pc' = "idle" => Len(streams') = C10_Count]_vars

C10_Witness ==
    /\ pool_op = "change_density"
    /\ pc = "idle"
    /\ density = 5
    /\ Len(streams) >= 1

\* ── C11 ────────────────────────────────────────────────────────────────
C11_Faster == pc = "poll" /\ event'.kind = "key" /\ event'.code \in {"+", "="}
C11_Slower == pc = "poll" /\ event'.kind = "key" /\ event'.code = "-"

\* C11: from any configured fps in [5, 60] and through any sequence of '+',
\* '=' and '-' presses the frame duration stays within [10, 200] ms and the
\* engine's fps within [5, 100]; a '+' or '=' press takes 5 ms off the frame
\* duration unless that would go below 10 ms, where it becomes 10 ms, a '-'
\* press adds 5 ms unless that would exceed 200 ms, where it becomes 200 ms,
\* and no other step changes either value.
C11_FrameDuration ==
    /\ [](/\ frame_duration >= 10 /\ frame_duration <= 200
          /\ fps >= 5 /\ fps <= 100)
    /\ [][/\ C11_Faster =>
                \/ frame_duration' = frame_duration - 5
                \/ frame_duration - 5 < 10 /\ frame_duration' = 10
          /\ C11_Slower =>
                \/ frame_duration' = frame_duration + 5
                \/ frame_duration + 5 > 200 /\ frame_duration' = 200
          /\ ~(C11_Faster \/ C11_Slower) =>
                frame_duration' = frame_duration /\ fps' = fps]_vars

C11_Witness ==
    /\ event = Key("+", FALSE)
    /\ frame_duration = 10
    /\ fps = 100
    /\ pc = "tick"

\* ── C12 ────────────────────────────────────────────────────────────────
C12_Call == pc = "idle" /\ event'.kind = "key" /\ event'.code \in {"Down", "Up", "Left", "Right"}
C12_Lanes == IF direction' \in {"Down", "Up"} THEN cols' ELSE rows'
C12_MaxPos == IF direction' \in {"Down", "Up"} THEN rows' ELSE cols'
C12_TrailCap == IF C12_MaxPos - 2 > 6 THEN C12_MaxPos - 2 ELSE 6

C13_TickStep == pc = "tick" /\ pc' = "render"
C13_RenderStep == pc = "render" /\ pc' = "sleep"
C13_Hide == pc = "poll" /\ event'.kind = "key" /\ event'.code = "i" /\ show_status
C13_Texts == {j \in 1 .. Len(out') : out'[j].kind = "status"}
C13_Blanks == {j \in 1 .. Len(out') : out'[j].kind = "status_blank"}
C13_Countdown ==
    C13_TickStep =>
        /\ status_timer' = (IF status_timer > 0 THEN status_timer - 1 ELSE 0)
        /\ status_timer' >= 0
        /\ status_timer = 1 => status_clear_needed'
        /\ status_timer # 1 => status_clear_needed' = status_clear_needed
C13_PaintsText ==
    Cardinality(C13_Texts) = 1 /\ C13_Blanks = {} /\ UNCHANGED status_clear_needed
C13_BlanksOnce ==
    Cardinality(C13_Blanks) = 1 /\ C13_Texts = {} /\ ~status_clear_needed'
C13_LeavesOverlay ==
    C13_Blanks = {} /\ C13_Texts = {} /\ UNCHANGED status_clear_needed

\* C13 as stated: the countdown decreases by one per tick while positive and
\* stays at zero; the erase flag is set on the tick that takes the countdown
\* from 1 to 0 and by nothing else; render paints the status text while the
\* overlay is visible and the countdown positive, blanks the region once and
\* clears the flag when the flag is set, and otherwise emits nothing for the
\* overlay.
C13_OverlayAsStated ==
    [][/\ C13_Countdown
       /\ C13_RenderStep =>
              IF show_status /\ status_timer > 0 THEN C13_PaintsText
              ELSE IF status_clear_needed THEN C13_BlanksOnce
              ELSE C13_LeavesOverlay
       /\ (~status_clear_needed /\ status_clear_needed') =>
              (C13_TickStep /\ status_timer = 1)]_vars

\* C13 amended: the countdown decreases by one per tick while positive and
\* stays at zero; a tick sets the erase flag exactly when it takes the
\* countdown from 1 to 0, and outside tick the flag is set only when 'i' hides
\* the overlay; on a grid with at least one row render paints the status text
\* while the overlay is visible and the countdown positive, blanks the region
\* once and clears the flag when the flag is set, and otherwise emits nothing
\* for the overlay; on a grid without rows render emits nothing for the
\* overlay and leaves the flag as it is.
C13_Overlay ==
    [][/\ C13_Countdown
       /\ C13_RenderStep =>
              IF rows = 0 THEN C13_LeavesOverlay
              ELSE IF show_status /\ status_timer > 0 THEN C13_PaintsText
              ELSE IF status_clear_needed THEN C13_BlanksOnce
              ELSE C13_LeavesOverlay
       /\ (~status_clear_needed /\ status_clear_needed') =>
              \/ C13_TickStep /\ status_timer = 1
              \/ C13_Hide /\ ~show_status']_vars

C13_Witness ==
    /\ pc = "sleep"
    /\ show_status
    /\ status_timer = 0
    /\ ~status_clear_needed
    /\ \E j \in 1 .. Len(out) : out[j].kind = "status_blank"

\* ── C14 ────────────────────────────────────────────────────────────────
\* C14: for every argument list, the Config parse_args returns has fps within
\* [5, 60], density within [0.1, 1.0] and one of the palettes.
C14_ConfigInRange ==
    pc = "start" =>
        /\ fps >= 5 /\ fps <= 60
        /\ density >= 10 /\ density <= 100
        /\ palette \in {"Arcane", "Emerald", "Frost", "Ember", "Rainbow", "BlinkingRainbow"}

\* ── C16 ────────────────────────────────────────────────────────────────
\* C16: hsl_to_rgb(0, 1, 0.5) is (255, 0, 0), hsl_to_rgb(120, 1, 0.5) is
\* (0, 255, 0), and for every hue and lightness hsl_to_rgb(h, 0, l) has
\* r = g = b.
C16_Hsl ==
    probe.done =>
        /\ (probe.h = 0 /\ probe.s = 100 /\ probe.l = 50) => probe.rgb = <<255, 0, 0>>
        /\ (probe.h = 120 /\ probe.s = 100 /\ probe.l = 50) => probe.rgb = <<0, 255, 0>>
        /\ probe.s = 0 => (probe.rgb[1] = probe.rgb[2] /\ probe.rgb[2] = probe.rgb[3])

C16_Witness ==
    /\ probe.done
    /\ probe.h = 120 /\ probe.s = 100 /\ probe.l = 50
    /\ probe.rgb = <<0, 255, 0>>

\* ── C15 ────────────────────────────────────────────────────────────────
C15_Head ==
    CASE palette = "Arcane" -> <<180, 60, 255>>
      [] palette = "Emerald" -> <<50, 255, 80>>
      [] palette = "Frost" -> <<100, 200, 255>>
      [] palette = "Ember" -> <<255, 120, 30>>
C15_Tail ==
    CASE palette = "Arcane" -> <<40, 10, 80>>
      [] palette = "Emerald" -> <<0, 30, 10>>
      [] palette = "Frost" -> <<0, 40, 60>>
      [] palette = "Ember" -> <<60, 0, 0>>
C15_Gradient == palette \in {"Arcane", "Emerald", "Frost", "Ember"}
C15_Nearest == IF probe.intensity < 0 THEN 0 ELSE IF probe.intensity > 100 THEN 100
               ELSE probe.intensity
C15_AtNearest ==
    Color(palette, C15_Nearest, probe.column_seed, probe.global_tick, probe.coordinate)
C15_Endpoints ==
    C15_Gradient =>
        /\ probe.intensity = 100 => probe.rgb = C15_Head
        /\ probe.intensity = 0 => probe.rgb = C15_Tail
        /\ probe.intensity > 100 => probe.rgb = C15_Head
        /\ probe.intensity < 0 => probe.rgb = C15_Tail

C17_MaxPos == IF direction \in {"Down", "Up"} THEN rows ELSE cols
C17_Advances(s) == s.tick_counter + 1 >= s.speed
C17_Leaves(s) == C17_Advances(s) /\ (s.pos + 1) - s.trail_len > C17_MaxPos
C17_OffGrid(s) ==
    \A j \in 0 .. s.trail_len : (s.pos + 1) - j < 0 \/ (s.pos + 1) - j >= C17_MaxPos

\* C17: in a tick, a stream on its speed-th tick has its head position raised
\* by exactly one and its counter set to 0, and any other stream keeps its
\* head position and has its counter raised by one; a stream becomes inactive
\* (and is reset) in a tick exactly when it advances to a head position with
\* pos - trail_len > max_pos, at which point no trail cell and not the erase
\* position is on the grid; outside ticks and rebuilds of the pool no stream
\* changes.
C17_StreamAdvance ==
    [][/\ (pc = "tick" /\ pc' = "render") =>
              /\ Len(streams') = Len(streams)
              /\ \A k \in 1 .. Len(streams) :
                    LET s == streams[k]
                        t == streams'[k]
                    IN  /\ (k \in dying') <=> C17_Leaves(s)
                        /\ k \in dying' => C17_OffGrid(s)
                        /\ (k \notin dying' /\ C17_Advances(s)) =>
                              /\ t.pos = s.pos + 1
                              /\ t.tick_counter = 0
                        /\ (k \notin dying' /\ ~C17_Advances(s)) =>
                              /\ t.pos = s.pos
                              /\ t.tick_counter = s.tick_counter + 1
                        /\ k \notin dying' =>
                              /\ t.active
                              /\ t.lane = s.lane /\ t.speed = s.speed
                              /\ t.trail_len = s.trail_len
       /\ (pc # "tick" /\ pc \notin {"poll", "resize", "new"}) => streams' = streams]_vars

C17_Witness ==
    /\ pc = "render"
    /\ dying = {1}
    /\ streams[1].tick_counter = 0
    /\ streams[1].pos <= 0
    /\ rows > 1

\* ── C18 ────────────────────────────────────────────────────────────────
C18_Bound == IF direction \in {"Down", "Up"} THEN rows ELSE cols
C18_HeadOnGrid(s) == s.active /\ s.pos >= 0 /\ s.pos < C18_Bound
C18_HeadX(s) ==
    CASE direction \in {"Down", "Up"} -> s.lane
      [] direction = "Right" -> s.pos
      [] direction = "Left" -> cols - 1 - s.pos
C18_HeadY(s) ==
    CASE direction = "Down" -> s.pos
      [] direction = "Up" -> rows - 1 - s.pos
      [] direction \in {"Left", "Right"} -> s.lane
C18_IsOverlay(p) == p.kind \in {"status", "status_blank"}
\* the paints that write the cell (x, y): a stream paint at that cell, or the
\* status line when the cell lies in the columns it spans on its row
C18_Writes(p, x, y) ==
    IF C18_IsOverlay(p)
    THEN p.y = y /\ x >= p.x /\ x < p.x + StatusLen(fps)
    ELSE p.x = x /\ p.y = y
C18_OnHead(s) == {j \in 1 .. Len(out) : C18_Writes(out[j], C18_HeadX(s), C18_HeadY(s))}
C18_StreamOnHead(s) == {j \in C18_OnHead(s) : ~C18_IsOverlay(out[j])}
C18_Last(S) == CHOOSE j \in S : \A m \in S : m <= j
C18_HeadAfterOwnPaints(k) ==
    \A j \in 1 .. Len(out) :
        (out[j].stream = k /\ out[j].kind \in {"glyph", "blank"}) =>
            \E h \in 1 .. Len(out) : h > j /\ out[h].kind = "head" /\ out[h].stream = k

\* C18 as stated: after render, for every active stream whose head is on the
\* grid, the last paint of the frame that writes the head cell is that
\* stream's head glyph, and it comes after all trail paints and the erase of
\* the stream.
C18_HeadLastAsStated ==
    pc = "sleep" =>
        \A k \in 1 .. Len(streams) :
            C18_HeadOnGrid(streams[k]) =>
                /\ C18_OnHead(streams[k]) # {}
                /\ out[C18_Last(C18_OnHead(streams[k]))].kind = "head"
                /\ out[C18_Last(C18_OnHead(streams[k]))].stream = k
                /\ C18_HeadAfterOwnPaints(k)

\* C18 amended: after render, for every active stream whose head is on the
\* grid, the last stream paint of the frame that writes the head cell is that
\* stream's head glyph, after all trail paints and the erase of the stream;
\* the only later paint that can write the head cell is the status line or
\* its blanking, which is emitted after every stream.
C18_HeadLast ==
    pc = "sleep" =>
        \A k \in 1 .. Len(streams) :
            C18_HeadOnGrid(streams[k]) =>
                /\ C18_StreamOnHead(streams[k]) # {}
                /\ out[C18_Last(C18_StreamOnHead(streams[k]))].kind = "head"
                /\ out[C18_Last(C18_StreamOnHead(streams[k]))].stream = k
                /\ C18_HeadAfterOwnPaints(k)
                /\ \A j \in 1 .. Len(out) : C18_IsOverlay(out[j]) => j = Len(out)

C18_Witness ==
    /\ pc = "sleep"
    /\ Len(streams) = 1
    /\ C18_HeadOnGrid(streams[1])
    /\ Cardinality(C18_StreamOnHead(streams[1])) = 2
    /\ out[Len(out)].kind = "status_blank"
    /\ Len(out) \in C18_OnHead(streams[1])

\* ── C19 ────────────────────────────────────────────────────────────────
\* C19: when an iteration of the run loop reaches its tick or its render, no
\* resize event that was pending at the start of the iteration is still in
\* the queue.
C19_ResizesDrained ==
    pc \in {"tick", "render"} =>
        \A j \in 1 .. Len(pending) : pending[j].kind # "resize"

\* ── C20 ────────────────────────────────────────────────────────────────
C20_Lanes == IF direction \in {"Down", "Up"} THEN cols ELSE rows
C20_Extent == IF direction \in {"Down", "Up"} THEN rows ELSE cols

\* a lane is picked only from a non-empty list of lanes of the grid
C20_PickFromLanes ==
    pc = "resize" =>
        /\ todo >= 1
        /\ Len(available) >= 1
        /\ \A j \in 1 .. Len(available) : available[j] >= 0 /\ available[j] < C20_Lanes

\* every random draw of a stream came from a non-empty range
C20_Draws ==
    \A i \in 1 .. Len(streams) :
        /\ streams[i].trail_len >= 4
        /\ Len(streams[i].chars) = streams[i].trail_len
        /\ streams[i].speed >= 1 /\ streams[i].speed <= 4
        /\ streams[i].tick_counter < streams[i].speed
        /\ streams[i].pos > 0 - (IF C20_Extent >= 1 THEN C20_Extent ELSE 1)

\* the divisors are never zero
C20_Divisors == fps >= 5 /\ frame_duration >= 10

\* every stream's lane is an index of the occupied-lane table
C20_Index == \A i \in 1 .. Len(streams) : streams[i].lane >= 0 /\ streams[i].lane < C20_Lanes

\* the overlay's row, rows - 1, is computed only on a grid with a row
C20_OverlayRow ==
    \A k \in 1 .. Len(out) :
        out[k].kind \in {"status", "status_blank"} =>
            rows > 0 /\ out[k].y = rows - 1 /\ out[k].y >= 0 /\ out[k].x >= 0

\* C20: once the engine is constructed, no sequence of resize, tick,
\* change_density, change_direction, poke, fps-change and render steps reaches
\* a failing condition, for grids with width 0 or height 0 too: a lane is
\* never picked from an empty list, every draw of a stream is from a non-empty
\* range, fps stays at least 5, rows - 1 is computed only when rows > 0, and
\* every lane is an index of the occupied-lane table.
C20_NeverFails ==
    /\ C20_PickFromLanes
    /\ C20_Draws
    /\ C20_Divisors
    /\ C20_Index
    /\ C20_OverlayRow

\* a grid of width 0 with one lane (direction Left): the fps was changed, the
\* pool has ticked and the frame was rendered with its overlay
C20_Witness ==
    /\ cols = 0 /\ rows = 1
    /\ direction = "Left"
    /\ Len(streams) = 1
    /\ pool_op = "tick"
    /\ frame_duration < 200
    /\ \E k \in 1 .. Len(out) : out[k].kind = "status"

\* ── C21 ────────────────────────────────────────────────────────────────
\* the brightness as stated
C21_Stated(countdown, f) ==
    IF countdown >= f THEN 150 ELSE 50 + ((100 * countdown) \div f)

\* what render() paints: the stated brightness, within [50, 150], in 8 bits
C21_Painted ==
    \A k \in 1 .. Len(out) :
        out[k].kind = "status" =>
            /\ status_timer > 0
            /\ out[k].b = C21_Stated(status_timer, fps)
            /\ out[k].b >= 50 /\ out[k].b <= 150
            /\ (100 * status_timer) \div fps < 256 \/ status_timer >= fps

\* the countdown moves down by one per tick; only a poke raises it, and fps
\* changes only together with a poke
C21_CountsDown ==
    /\ status_timer' # status_timer =>
          \/ status_timer' = status_timer - 1 /\ fps' = fps
          \/ status_timer' = fps' * 3
    /\ fps' # fps => status_timer' = fps' * 3

\* between two frames without a poke the tick takes the countdown from t to
\* t - 1, and the brightness of the next frame is not above that of the last
C21_Fades ==
    (status_timer' = status_timer - 1 /\ fps' = fps /\ status_timer' > 0) =>
        C21_Stated(status_timer', fps') <= C21_Stated(status_timer, fps)

\* C21: the overlay brightness used by render() is 150 while the countdown is
\* at least fps and 50 + floor(100*countdown/fps) while 0 < countdown < fps;
\* it is always within [50,150], never overflows 8 bits, and does not increase
\* from one frame to the next while the countdown runs down without a poke.
C21_Brightness == []C21_Painted /\ [][C21_CountsDown /\ C21_Fades]_vars

\* a frame in the last second of the countdown, at an fps the keys have set
C21_Witness ==
    /\ pc = "sleep"
    /\ fps = 7
    /\ status_timer = 3
    /\ \E k \in 1 .. Len(out) : out[k].kind = "status" /\ out[k].b = 92

\* ── C22 ────────────────────────────────────────────────────────────────
C22_Lanes == IF direction \in {"Down", "Up"} THEN cols ELSE rows

\* between operations: all streams active, on lanes of the grid, one per lane
C22_Pool ==
    pc = "idle" =>
        /\ \A i \in 1 .. Len(streams) :
              /\ streams[i].active
              /\ streams[i].lane >= 0 /\ streams[i].lane < C22_Lanes
        /\ \A i, j \in 1 .. Len(streams) : i # j => streams[i].lane # streams[j].lane

\* a tick found a free lane for every stream it had to reset, so the pick
\* over all lanes was not taken
C22_NoFallback == pool_op = "tick" => Cardinality(free_seen) >= Cardinality(dying)

\* C22: after construction and after every completed resize, tick,
\* change_density and change_direction, in any order, every stream of the
\* pool is active, its lane is below the current max_lanes and no two streams
\* share a lane; render() meets no inactive stream and tick() never falls
\* back to a pick over all lanes.
C22_PoolSound == C22_Pool /\ C22_NoFallback

\* a tick on a full two-lane grid that has just reset a stream
C22_Witness ==
    /\ pc = "idle"
    /\ pool_op = "tick"
    /\ Len(streams) = 2
    /\ dying # {}

\* ── C23 ────────────────────────────────────────────────────────────────
\* the cell is painted by the trail of a stream of the pool
C23_OnTrail(c) ==
    \E i \in 1 .. Len(streams) :
        \E j \in 0 .. (streams[i].trail_len - 1) :
            ToScreen(direction, streams[i].lane, streams[i].pos - j, cols, rows)
                = Some(c[1], c[2])

\* C23: after each render(), every cell outside the status overlay's row that
\* holds a glyph lies on the current trail of some stream of the pool: the
\* tail erasure leaves no stale glyph, and a pool rebuild leaves no glyph of
\* a discarded stream.
C23_NoStaleGlyph ==
    pc = "sleep" => \A c \in screen : c[2] # rows - 1 => C23_OnTrail(c)

\* ── C24 ────────────────────────────────────────────────────────────────
C24_MaxPos == IF direction \in {"Down", "Up"} THEN rows ELSE cols

\* the ticks a stream has left before it goes inactive
C24_Left(s) == s.speed * (C24_MaxPos + s.trail_len + 1 - s.pos) - s.tick_counter

\* the stated bound: 4 * (2*max_pos + max(6, max_pos-2) + 2)
C24_Limit ==
    4 * (2 * C24_MaxPos + (IF C24_MaxPos - 2 > 6 THEN C24_MaxPos - 2 ELSE 6) + 2)

\* a stream just created or reset has speed * (offset + max_pos + trail_len + 1)
\* ticks left, where offset = -pos is its initial head offset
C24_Fresh(s) == s.tick_counter = 0 /\ s.pos <= 0 /\ s.active

\* every stream of the pool has some ticks left, and no more than the bound
C24_Within ==
    pc = "idle" =>
        \A i \in 1 .. Len(streams) :
            /\ C24_Left(streams[i]) >= 1
            /\ C24_Left(streams[i]) <= C24_Limit
            /\ C24_Fresh(streams[i]) =>
                  C24_Left(streams[i])
                      <= streams[i].speed
                           * ((0 - streams[i].pos) + C24_MaxPos + streams[i].trail_len + 2)

\* each tick takes one tick off every stream; the stream whose last tick this
\* was goes inactive and is reset in the same tick
C24_Countdown ==
    (pc = "idle" /\ pc' = "idle" /\ pool_op' = "tick") =>
        /\ Len(streams') = Len(streams)
        /\ \A i \in 1 .. Len(streams) :
              IF C24_Left(streams[i]) = 1
              THEN i \in dying' /\ C24_Fresh(streams'[i])
              ELSE i \notin dying' /\ C24_Left(streams'[i]) = C24_Left(streams[i]) - 1

\* under ticks alone every stream of the pool is reset again and again
C24_Recycled ==
    \A i \in 1 .. MaxCols :
        []<>(pc = "idle" /\ (Len(streams) < i \/ (pool_op = "tick" /\ i \in dying)))

\* C24: if tick() keeps being called and the pool is not rebuilt, each stream
\* eventually becomes inactive and is reset in that same tick, at most
\* speed * (initial head offset + max_pos + trail_len + 2)
\* <= 4 * (2*max_pos + max(6, max_pos-2) + 2) ticks after its creation or
\* last reset; no stream stays on or off the grid forever.
C24_EveryStreamRecycled == []C24_Within /\ [][C24_Countdown]_vars /\ C24_Recycled

\* a tick on the tall grid that has just reset the stream, which had run
\* its longest trail down the whole column
C24_Witness ==
    /\ pc = "idle"
    /\ pool_op = "tick"
    /\ direction = "Down" /\ rows = TallRows
    /\ Len(streams) = 1
    /\ 1 \in dying

====
